---- MODULE Spec2Model ----
(* Model of src/monitor_build.py: a single-threaded script that resolves a   *)
(* workflow id, dispatches the workflow and polls the repository's run list  *)
(* until the most recent run is completed or 60 attempts have elapsed.       *)
(* The remote provider is the environment: every HTTP response is an input   *)
(* chosen with \E from the sets defined below.                               *)
EXTENDS Integers, Sequences, FiniteSets, TLC

\* ---------------------------------------------------------------- bounds
\* longest list of workflows in a list-workflows response
MaxWorkflows == 2

\* ------------------------------------------------------- program constants
\* monitor_latest_run: max_checks = 60
max_checks == 60

\* ---------------------------------------------------------- value domains
None == "None"

\* os.environ.get('GITHUB_PAT'): unset (None), set to '', set to a token
Tokens == {None, "", "ghp_token"}

BuildYml == <<"b", "u", "i", "l", "d", ".", "y", "m", "l">>
Dir == <<"w", "f", "/">>
Paths == { Dir \o BuildYml,
           Dir \o <<"p", "r", "e">> \o BuildYml,
           Dir \o <<"t", "e", "s", "t", ".", "y", "m", "l">>,
           Dir \o <<"b", "u", "i", "l", "d", ".", "y", "a", "m", "l">> }

\* workflow ids of the provider are positive integers, written as tags here
WorkflowIds == {"id11", "id22"}
Workflows == [id : WorkflowIds, path : Paths]

SeqsUpTo(S, n) == UNION { [1..k -> S] : k \in 0..n }

WorkflowsCodes == {200, 404}
WorkflowsResponses ==
    [status_code : {200}, workflows : SeqsUpTo(Workflows, MaxWorkflows)]
    \cup [status_code : WorkflowsCodes \ {200}, workflows : {<<>>}]

DispatchCodes == {204, 201, 422}

Statuses == {"queued", "in_progress", "completed"}
Conclusions == {None, "success", "failure"}

\* a workflow run as the list-runs endpoint returns it; workflow and
\* dispatched_here say which workflow it belongs to and whether it was started
\* by the dispatch of this execution (the script reads neither)
Run(s, c, w, d) ==
    [status |-> s, conclusion |-> c, workflow |-> w, dispatched_here |-> d]
NoRun == Run(None, None, None, FALSE)

\* runs the provider can list: a run started by this execution's dispatch
\* exists only if the dispatch was accepted (204)
RunsOf(accepted) ==
    { Run(s, c, "build.yml", FALSE) : s \in Statuses, c \in Conclusions }
    \cup { Run(s, c, "other.yml", FALSE) : s \in Statuses, c \in Conclusions }
    \cup (IF accepted
          THEN { Run(s, c, "build.yml", TRUE) : s \in Statuses, c \in Conclusions }
          ELSE {})

\* older entries of a page, behind the most recent run
OlderRuns == { Run("completed", "success", "build.yml", FALSE) }

RunsCodes == {200, 202, 404}
RunsResponses(accepted) ==
    [status_code : {200}, workflow_runs : {<<>>}]
    \cup { [status_code |-> 200, workflow_runs |-> <<r>>] : r \in RunsOf(accepted) }
    \cup { [status_code |-> 200, workflow_runs |-> <<r, o>>] :
             r \in RunsOf(accepted), o \in OlderRuns }
    \cup [status_code : RunsCodes \ {200}, workflow_runs : {<<>>}]
    \cup { [status_code |-> 202, workflow_runs |-> <<r>>] : r \in RunsOf(accepted) }

Is2xx(code) == code >= 200 /\ code < 300

\* ------------------------------------------------------- pure functions
\* str.endswith
EndsWith(s, suffix) ==
    /\ Len(s) >= Len(suffix)
    /\ SubSeq(s, Len(s) - Len(suffix) + 1, Len(s)) = suffix

\* main: "if not GITHUB_TOKEN"
TokenMissing_onlyNone(tok) == tok = None
TokenMissing(tok) == tok = None \/ tok = ""

\* get_workflow_runs: the run list of a 200 response, [] otherwise
get_workflow_runs_any2xx(response) ==
    IF Is2xx(response.status_code) THEN response.workflow_runs ELSE <<>>
get_workflow_runs(response) ==
    IF response.status_code = 200 THEN response.workflow_runs ELSE <<>>

\* get_workflow_id: id of the first workflow whose path ends with the name
RECURSIVE FirstMatch(_, _)
FirstMatch(workflows, workflow_name) ==
    IF workflows = <<>> THEN None
    ELSE IF EndsWith(Head(workflows).path, workflow_name)
         THEN Head(workflows).id
         ELSE FirstMatch(Tail(workflows), workflow_name)

get_workflow_id_first(response, workflow_name) ==
    IF response.status_code = 200 /\ response.workflows # <<>>
    THEN Head(response.workflows).id
    ELSE None
get_workflow_id(response, workflow_name) ==
    IF response.status_code = 200
    THEN FirstMatch(response.workflows, workflow_name)
    ELSE None

\* main: "if workflow_id" (ids are positive, so only None is falsy)
Truthy(v) == v # None

\* trigger_workflow: response.status_code == 204
trigger_workflow_any2xx(status_code) == Is2xx(status_code)
trigger_workflow(status_code) == status_code = 204

\* monitor_latest_run: "while check_count < max_checks"
LoopGuard_inclusive(count) == count <= max_checks
LoopGuard(count) == count < max_checks

\* monitor_latest_run: "latest = runs[0]"
Latest(runs) == runs[1]

\* monitor_latest_run: "if status != previous_status"
StatusChanged_always(status, previous) == TRUE
StatusChanged(status, previous) == status # previous

\* monitor_latest_run: "if status == 'completed'"
IsTerminal_orConcluded(run) == run.status = "completed" \/ run.conclusion # None
IsTerminal(run) == run.status = "completed"

\* monitor_latest_run: "if conclusion == 'success'" -> True, else False
Outcome_notFailure(conclusion) == IF conclusion # "failure" THEN "True" ELSE "False"
Outcome(conclusion) == IF conclusion = "success" THEN "True" ELSE "False"

\* main: result is True -> 0, result is False -> 1, otherwise 0
ExitCode_timeoutFails(res) == IF res = "True" THEN 0 ELSE 1
ExitCode(res) == IF res = "True" THEN 0 ELSE IF res = "False" THEN 1 ELSE 0

\* -------------------------------------------------------------- state
VARIABLES
    pc,               \* position of main
    GITHUB_TOKEN,     \* module-level credential
    workflow_id,      \* main's local
    triggered,        \* value returned by trigger_workflow (FALSE before)
    previous_status,  \* monitor_latest_run's local
    check_count,      \* monitor_latest_run's local
    result,           \* value returned by monitor_latest_run ("unset" before)
    exit_code,        \* value returned by main (-1 before)
    printed,          \* messages printed by the last step
    slept,            \* seconds slept by the last step
    nWorkflowsReq,    \* list-workflows requests issued so far
    nDispatchReq,     \* dispatch requests issued so far
    nRunsReq,         \* list-runs requests issued so far
    wfCode,           \* status of the list-workflows response (0 before)
    wfHasMatch,       \* that response was 200 and listed a path ending build.yml
    dispatchCode,     \* status of the dispatch response (0 before)
    respCode,         \* status of the last list-runs response (0 before)
    respTop,          \* first run in the body of the last list-runs response, or NoRun
    lastSeen,         \* status of the last attempt whose poll returned a run
    firstCompleted,   \* first completed run a poll returned, or NoRun
    timeoutReported   \* the timeout message has been printed

vars == <<pc, GITHUB_TOKEN, workflow_id, triggered, previous_status,
          check_count, result, exit_code, printed, slept, nWorkflowsReq,
          nDispatchReq, nRunsReq, wfCode, wfHasMatch, dispatchCode, respCode,
          respTop, lastSeen, firstCompleted, timeoutReported>>

mainLocals == <<workflow_id, triggered>>
monitorLocals == <<previous_status, check_count, result>>
wfObs == <<nWorkflowsReq, wfCode, wfHasMatch>>
dispatchObs == <<nDispatchReq, dispatchCode>>
runsObs == <<nRunsReq, respCode, respTop, lastSeen, firstCompleted>>

Init ==
    /\ pc = "main"
    /\ GITHUB_TOKEN \in Tokens
    /\ workflow_id = None
    /\ triggered = FALSE
    /\ previous_status = None
    /\ check_count = 0
    /\ result = "unset"
    /\ exit_code = -1
    /\ printed = {}
    /\ slept = 0
    /\ nWorkflowsReq = 0
    /\ nDispatchReq = 0
    /\ nRunsReq = 0
    /\ wfCode = 0
    /\ wfHasMatch = FALSE
    /\ dispatchCode = 0
    /\ respCode = 0
    /\ respTop = NoRun
    /\ lastSeen = None
    /\ firstCompleted = NoRun
    /\ timeoutReported = FALSE

\* main, lines 90-97: the credential check and the banner
CheckToken ==
    /\ pc = "main"
    /\ IF TokenMissing(GITHUB_TOKEN)
       THEN /\ printed' = {<<"GITHUB_PAT not found">>}
            /\ exit_code' = 1
            /\ pc' = "done"
       ELSE /\ printed' = {<<"banner">>}
            /\ exit_code' = exit_code
            /\ pc' = "resolve"
    /\ slept' = 0
    /\ UNCHANGED <<GITHUB_TOKEN, mainLocals, monitorLocals, wfObs, dispatchObs,
                   runsObs, timeoutReported>>

\* main, lines 100-104 and 111-112: get_workflow_id('build.yml') and the branch
ResolveWorkflow ==
    /\ pc = "resolve"
    /\ \E response \in WorkflowsResponses :
         /\ workflow_id' = get_workflow_id(response, BuildYml)
         /\ wfCode' = response.status_code
         /\ wfHasMatch' = /\ response.status_code = 200
                          /\ \E i \in 1..Len(response.workflows) :
                               EndsWith(response.workflows[i].path, BuildYml)
    /\ nWorkflowsReq' = nWorkflowsReq + 1
    /\ IF Truthy(workflow_id')
       THEN /\ printed' = {<<"Checking for workflow">>, <<"Found workflow ID">>}
            /\ pc' = "trigger"
       ELSE /\ printed' = {<<"Checking for workflow">>, <<"Workflow not found">>}
            /\ pc' = "monitor_entry"
    /\ slept' = 0
    /\ UNCHANGED <<GITHUB_TOKEN, triggered, monitorLocals, exit_code,
                   dispatchObs, runsObs, timeoutReported>>

\* main, lines 105-110: trigger_workflow(workflow_id) and the branch
TriggerWorkflow ==
    /\ pc = "trigger"
    /\ \E status_code \in DispatchCodes :
         /\ dispatchCode' = status_code
         /\ triggered' = trigger_workflow(status_code)
    /\ nDispatchReq' = nDispatchReq + 1
    /\ IF triggered'
       THEN /\ printed' = {<<"Triggering workflow">>, <<"Workflow triggered successfully">>}
            /\ slept' = 3
       ELSE /\ printed' = {<<"Triggering workflow">>, <<"Could not trigger workflow">>}
            /\ slept' = 0
    /\ pc' = "monitor_entry"
    /\ UNCHANGED <<GITHUB_TOKEN, workflow_id, monitorLocals, exit_code, wfObs,
                   runsObs, timeoutReported>>

\* monitor_latest_run, lines 47-51: the header and the locals
EnterMonitor ==
    /\ pc = "monitor_entry"
    /\ printed' = {<<"Monitoring latest workflow run">>}
    /\ slept' = 0
    /\ previous_status' = None
    /\ check_count' = 0
    /\ pc' = "monitor"
    /\ UNCHANGED <<GITHUB_TOKEN, mainLocals, result, exit_code, wfObs,
                   dispatchObs, runsObs, timeoutReported>>

\* monitor_latest_run, lines 53-84: one iteration of the polling loop
PollAttempt ==
    /\ pc = "monitor"
    /\ LoopGuard(check_count)
    /\ \E response \in RunsResponses(dispatchCode = 204) :
         LET runs == get_workflow_runs(response)
             body == response.workflow_runs
         IN
         /\ nRunsReq' = nRunsReq + 1
         /\ respCode' = response.status_code
         /\ respTop' = IF body # <<>> THEN Head(body) ELSE NoRun
         /\ lastSeen' = IF response.status_code = 200 /\ body # <<>>
                        THEN Head(body).status ELSE lastSeen
         /\ firstCompleted' =
               IF /\ firstCompleted = NoRun
                  /\ response.status_code = 200
                  /\ body # <<>>
                  /\ Head(body).status = "completed"
               THEN Head(body) ELSE firstCompleted
         /\ IF runs = <<>>
            THEN /\ printed' = {<<"No workflow runs found">>}
                 /\ slept' = 5
                 /\ check_count' = check_count + 1
                 /\ UNCHANGED <<previous_status, result, pc>>
            ELSE LET latest == Latest(runs)
                     status == latest.status
                     conclusion == latest.conclusion
                     changed == StatusChanged(status, previous_status)
                     update ==
                         IF changed
                         THEN {<<"Status", status>>}
                              \cup (IF conclusion # None
                                    THEN {<<"Conclusion", conclusion>>} ELSE {})
                         ELSE {}
                 IN
                 /\ previous_status' = IF changed THEN status ELSE previous_status
                 /\ IF IsTerminal(latest)
                    THEN /\ result' = Outcome(conclusion)
                         /\ printed' = update \cup
                              (IF result' = "True"
                               THEN {<<"Build SUCCESSFUL">>}
                               ELSE {<<"Build FAILED", conclusion>>})
                         /\ slept' = 0
                         /\ pc' = "report"
                         /\ UNCHANGED check_count
                    ELSE /\ printed' = update
                         /\ slept' = 5
                         /\ check_count' = check_count + 1
                         /\ UNCHANGED <<result, pc>>
    /\ UNCHANGED <<GITHUB_TOKEN, mainLocals, exit_code, wfObs, dispatchObs,
                   timeoutReported>>

\* monitor_latest_run, lines 86-87: the loop condition failed
Timeout ==
    /\ pc = "monitor"
    /\ ~LoopGuard(check_count)
    /\ printed' = {<<"Timeout reached">>}
    /\ slept' = 0
    /\ timeoutReported' = TRUE
    /\ result' = None
    /\ pc' = "report"
    /\ UNCHANGED <<GITHUB_TOKEN, mainLocals, previous_status, check_count,
                   exit_code, wfObs, dispatchObs, runsObs>>

\* main, lines 117-124: the exit code
Report ==
    /\ pc = "report"
    /\ exit_code' = ExitCode(result)
    /\ printed' = IF result = None THEN {<<"Check build status at">>} ELSE {}
    /\ slept' = 0
    /\ pc' = "done"
    /\ UNCHANGED <<GITHUB_TOKEN, mainLocals, monitorLocals, wfObs, dispatchObs,
                   runsObs, timeoutReported>>

Next ==
    \/ CheckToken
    \/ ResolveWorkflow
    \/ TriggerWorkflow
    \/ EnterMonitor
    \/ PollAttempt
    \/ Timeout
    \/ Report

Spec == Init /\ [][Next]_vars

TypeOK ==
    /\ pc \in {"main", "resolve", "trigger", "monitor_entry", "monitor", "report", "done"}
    /\ GITHUB_TOKEN \in Tokens
    /\ workflow_id \in WorkflowIds \cup {None}
    /\ triggered \in BOOLEAN
    /\ previous_status \in Statuses \cup {None}
    /\ check_count \in 0..max_checks
    /\ result \in {"unset", None, "True", "False"}
    /\ exit_code \in {-1, 0, 1}
    /\ slept \in {0, 3, 5}

\* ------------------------------------------------------------ properties
\* a step that issues a list-runs request
PollStep == nRunsReq' = nRunsReq + 1
NoDataMsg == <<"No workflow runs found">>
CredentialAbsent == GITHUB_TOKEN = None \/ GITHUB_TOKEN = ""

\* C1: with GITHUB_PAT unset or empty, main returns 1 and no list-workflows,
\* dispatch or list-runs request is ever issued.
C1_MissingCredential ==
    CredentialAbsent =>
        /\ nWorkflowsReq = 0 /\ nDispatchReq = 0 /\ nRunsReq = 0
        /\ pc \in {"main", "done"}
        /\ (pc = "done" => exit_code = 1)
C1_Witness == GITHUB_TOKEN = "" /\ pc = "done" /\ exit_code = 1

\* C2: once a poll has returned a completed run, the exit code is 0 if its
\* conclusion is success and 1 for any other conclusion (absent included),
\* whatever the workflow lookup and the dispatch did before.
C2_CompletedDecidesExit ==
    (pc = "done" /\ firstCompleted # NoRun) =>
        exit_code = (IF firstCompleted.conclusion = "success" THEN 0 ELSE 1)
C2_Witness ==
    /\ pc = "done"
    /\ firstCompleted # NoRun
    /\ firstCompleted.conclusion = None
    /\ exit_code = 1
    /\ wfCode = 404
    /\ check_count > 1

\* C3: monitor_latest_run issues at most max_checks list-runs requests, one
\* per attempt, and returns, whatever the responses are: every attempt that
\* does not return uses up one of the max_checks attempts, and once they are
\* used up the only step left is the return after the timeout message.
C3_PollingTerminates ==
    /\ [](nRunsReq <= max_checks)
    /\ [](pc = "monitor" => (nRunsReq = check_count /\ result = "unset"))
    /\ [](pc = "monitor" /\ check_count = max_checks =>
            (ENABLED Timeout /\ ~ENABLED PollAttempt))
    /\ [][PollStep => (pc = "monitor" /\ check_count < max_checks)]_vars
    /\ [][PollStep => (check_count' = check_count + 1 \/ result' # "unset")]_vars
    /\ [][(pc = "monitor" /\ pc' # "monitor") => result' # "unset"]_vars
C3_Witness == nRunsReq = max_checks /\ result = None /\ timeoutReported

\* C4: the exit code is 0 or 1; it is 1 exactly when the credential is absent
\* or a completed run with a conclusion other than success was observed; when
\* the attempt bound is reached the timeout is reported and the code is 0.
C4_ExitCodes ==
    pc = "done" =>
        /\ exit_code \in {0, 1}
        /\ exit_code = 1 <=>
             \/ CredentialAbsent
             \/ (firstCompleted # NoRun /\ firstCompleted.conclusion # "success")
        /\ (check_count = max_checks => timeoutReported /\ exit_code = 0)
        /\ (timeoutReported => check_count = max_checks /\ firstCompleted = NoRun)
C4_Witness ==
    pc = "done" /\ timeoutReported /\ exit_code = 0 /\ nRunsReq = max_checks

\* C5: the dispatch counts as success exactly when its status is 204: only
\* then the success message is printed and 3 seconds are slept, every other
\* status prints the warning, and monitoring starts next in both cases.
C5_DispatchSuccessIs204 ==
    nDispatchReq = 1 =>
        /\ triggered <=> dispatchCode = 204
        /\ pc \in {"monitor_entry", "monitor", "report", "done"}
        /\ pc = "monitor_entry" =>
             /\ <<"Workflow triggered successfully">> \in printed
                  <=> dispatchCode = 204
             /\ slept = 3 <=> dispatchCode = 204
             /\ <<"Could not trigger workflow">> \in printed
                  <=> dispatchCode # 204
C5_Witness ==
    /\ pc = "monitor_entry"
    /\ dispatchCode = 204
    /\ slept = 3
    /\ <<"Workflow triggered successfully">> \in printed

\* what a no-data poll does: fallback message only, one attempt used, previous
\* status kept, nothing decided, polling goes on
NoDataEffect ==
    /\ printed' = {NoDataMsg}
    /\ check_count' = check_count + 1
    /\ previous_status' = previous_status
    /\ result' = result
    /\ exit_code' = exit_code
    /\ pc' = "monitor"

\* C6 as stated: a list-runs response is treated as no data exactly when it is
\* non-2xx, and such a poll only prints the fallback, uses one attempt, keeps
\* the previous status and lets polling go on.
C6_Original ==
    [][PollStep =>
         /\ NoDataMsg \in printed' <=> ~Is2xx(respCode')
         /\ NoDataMsg \in printed' => NoDataEffect]_vars

\* C6 amended: a list-runs response is treated as no data exactly when its
\* status is not 200 or its run list is empty, and such a poll only prints the
\* fallback, uses one attempt, keeps the previous status and lets polling go on.
C6_NoDataIsNot200OrEmpty ==
    [][PollStep =>
         /\ NoDataMsg \in printed' <=> (respCode' # 200 \/ respTop' = NoRun)
         /\ NoDataMsg \in printed' => NoDataEffect]_vars
C6_Witness ==
    /\ respCode = 202
    /\ respTop # NoRun
    /\ printed = {NoDataMsg}
    /\ pc = "monitor"
    /\ previous_status = "queued"

\* C7: a reported build outcome is about the run of build.yml that this
\* execution's dispatch started.
C7_ReportsDispatchedRun ==
    result \in {"True", "False"} =>
        /\ firstCompleted.dispatched_here
        /\ firstCompleted.workflow = "build.yml"

\* C8: with a credential, requests come in one order: exactly one
\* list-workflows first, then at most one dispatch, then only list-runs; a
\* dispatch needs a workflow whose path ends with build.yml in a 200 response
\* and never follows a list-runs request.
C8_CallOrder ==
    /\ [](/\ nWorkflowsReq <= 1
          /\ nDispatchReq <= 1
          /\ (~CredentialAbsent /\ pc \notin {"main", "resolve"}) => nWorkflowsReq = 1
          /\ nDispatchReq = 1 => (nWorkflowsReq = 1 /\ wfCode = 200 /\ wfHasMatch)
          /\ nRunsReq > 0 => nWorkflowsReq = 1)
    /\ [][/\ nDispatchReq' # nDispatchReq => (nRunsReq = 0 /\ nRunsReq' = 0)
          /\ nWorkflowsReq' # nWorkflowsReq =>
               (nDispatchReq = 0 /\ nDispatchReq' = 0 /\ nRunsReq = 0 /\ nRunsReq' = 0)]_vars
C8_Witness ==
    nWorkflowsReq = 1 /\ nDispatchReq = 1 /\ nRunsReq >= 2 /\ pc = "done"

\* C9: polling stops at the first attempt whose most recent run is completed
\* and no list-runs request follows; an outcome is returned only from such an
\* attempt, and a run of any other status never ends polling before the bound.
C9_StopsAtCompleted ==
    /\ [][PollStep =>
            LET completed == /\ respCode' = 200
                             /\ respTop' # NoRun
                             /\ respTop'.status = "completed"
            IN /\ completed => (pc' = "report" /\ result' \in {"True", "False"})
               /\ ~completed => (pc' = "monitor" /\ result' = "unset")]_vars
    /\ [][result # "unset" => nRunsReq' = nRunsReq]_vars
    /\ [][result' # result =>
            \/ result' \in {"True", "False"} /\ PollStep
            \/ result' = None /\ check_count = max_checks]_vars
C9_Witness ==
    /\ pc = "report"
    /\ result = "False"
    /\ check_count >= 2
    /\ previous_status = "completed"
    /\ respTop.conclusion = "failure"

\* C10: an attempt prints a status update exactly when it returned a run whose
\* status differs from that of the last attempt that returned a run; the same
\* status seen again, even after empty or failed polls, is not printed again.
C10_PrintsOnChange ==
    [][PollStep =>
         LET got == respCode' = 200 /\ respTop' # NoRun
             differs == got /\ respTop'.status # lastSeen
         IN /\ (\E s \in Statuses : <<"Status", s>> \in printed') <=> differs
            /\ differs => <<"Status", respTop'.status>> \in printed']_vars
C10_Witness ==
    /\ pc = "monitor"
    /\ printed = {}
    /\ respCode = 200
    /\ respTop.status = "queued"
    /\ previous_status = "queued"
    /\ lastSeen = "queued"
    /\ nRunsReq >= 3
====
